---- MODULE Spec2Model ----
(***************************************************************************)
(* A model of the Cinder API client library (src/src/cinder): the shared   *)
(* base client (base_client.py), the non-blocking CinderClient (client.py) *)
(* and the blocking SyncCinderClient (sync_client.py), together with the   *)
(* part of the HTTP transport (httpx) and of the typed models (pydantic)   *)
(* that their method bodies rely on.                                       *)
(*                                                                         *)
(* Conventions.                                                            *)
(*   - Optional[x] is a sequence: None is <<>>, a present value x is <<x>>.*)
(*   - A Python dict is a function; the empty dict is <<>>.                *)
(*   - A string is a sequence of pieces (the empty string is <<>>), so     *)
(*     that f-strings, rstrip and emptiness tests are computed.  A slash   *)
(*     that ends a string is a piece of its own.                           *)
(*   - An endpoint call is two steps, split at the method's one network    *)
(*     wait: Call (everything up to handing the request to the transport)  *)
(*     and Respond / Fail (everything after the response or the transport  *)
(*     error).  A caller task (a coroutine or a thread) runs one call at a *)
(*     time.                                                               *)
(*   - last is the record of the step just taken: what the operation got,  *)
(*     what it returned or raised.                                         *)
(***************************************************************************)
EXTENDS Integers, Sequences, FiniteSets, TLC

VARIABLES env, shared, clients, tasks, ncalls, nreqs, nrefused, last

vars == <<env, shared, clients, tasks, ncalls, nreqs, nrefused, last>>

----------------------------------------------------------------------------
(* Bounds and program constants *)

\* Cap on the number of endpoint calls of one run (the counters are unbounded).
MaxCalls == 2

\* timeout: float = 30.0
DefaultTimeout == 30

Clients == {"c1", "c2"}
Tasks == {"t1", "t2"}
Kinds == {"async", "sync"}

----------------------------------------------------------------------------
(* Optional values, dicts, strings *)

None == <<>>
Some(x) == <<x>>
Val(o) == o[1]

NoError == "NoError"

EmptyDict == <<>>

\* dict.setdefault(k, v): the key is compared exactly (a plain dict).
setdefault(d, k, v) == IF k \in DOMAIN d THEN d ELSE d @@ (k :> v)

\* d.update(m): the keys of m win.
update(d, m) == m @@ d

\* Variant: one trailing "/" is removed (base_url[:-1] if it ends with "/").
rstrip_one(s) ==
    IF Len(s) > 0 /\ s[Len(s)] = "/" THEN SubSeq(s, 1, Len(s) - 1) ELSE s

\* str.rstrip("/"): every trailing "/" is removed.
RECURSIVE rstrip(_)
rstrip(s) ==
    IF Len(s) > 0 /\ s[Len(s)] = "/"
    THEN rstrip(SubSeq(s, 1, Len(s) - 1))
    ELSE s

\* f"Bearer {token}"
Bearer(token) == <<"Bearer ">> \o token

ApplicationJson == <<"application/json">>

----------------------------------------------------------------------------
(* BaseCinderClient *)


\* Variant: the Authorization default is set only when no headers were passed.
BaseCinderClient_init_auth_only_without_headers(base_url, token, timeout, hdrs) ==
    LET h0 == IF hdrs = None THEN EmptyDict ELSE Val(hdrs)
        h1 == IF hdrs = None THEN setdefault(h0, "Authorization", Bearer(token))
              ELSE h0
        h2 == setdefault(h1, "Content-Type", ApplicationJson)
    IN  [base_url |-> rstrip(base_url), token |-> token,
         timeout |-> timeout, headers |-> h2]

\* Variant: the defaults are written over what the caller passed.
BaseCinderClient_init_defaults_win(base_url, token, timeout, hdrs) ==
    LET h0 == IF hdrs = None THEN EmptyDict ELSE Val(hdrs)
        h1 == update(h0, "Authorization" :> Bearer(token))
        h2 == update(h1, "Content-Type" :> ApplicationJson)
    IN  [base_url |-> rstrip(base_url), token |-> token,
         timeout |-> timeout, headers |-> h2]

\* BaseCinderClient.__init__: hdrs is kwargs' "headers" entry (None when the
\* caller passed none).  The returned headers are the dict object the caller
\* passed, after the two setdefault calls.
BaseCinderClient_init(base_url, token, timeout, hdrs) ==
    LET h0 == IF hdrs = None THEN EmptyDict ELSE Val(hdrs)
        h1 == setdefault(h0, "Authorization", Bearer(token))
        h2 == setdefault(h1, "Content-Type", ApplicationJson)
    IN  [base_url |-> rstrip(base_url), token |-> token,
         timeout |-> timeout, headers |-> h2]


\* Variant: `if limit:` / `if offset:` in place of `is not None`.
_build_params_truthy(limit, offset, extra_params) ==
    LET p0 == EmptyDict
        p1 == IF limit # None /\ Val(limit) # 0
              THEN p0 @@ ("limit" :> Val(limit)) ELSE p0
        p2 == IF offset # None /\ Val(offset) # 0
              THEN p1 @@ ("offset" :> Val(offset)) ELSE p1
    IN  update(p2, extra_params)

\* Variant: the additional parameters are not merged in.
_build_params_without_extras(limit, offset, extra_params) ==
    LET p0 == EmptyDict
        p1 == IF limit # None THEN p0 @@ ("limit" :> Val(limit)) ELSE p0
        p2 == IF offset # None THEN p1 @@ ("offset" :> Val(offset)) ELSE p1
    IN  p2

\* BaseCinderClient._build_params(limit, offset, **extra_params)
_build_params(limit, offset, extra_params) ==
    LET p0 == EmptyDict
        p1 == IF limit # None THEN p0 @@ ("limit" :> Val(limit)) ELSE p0
        p2 == IF offset # None THEN p1 @@ ("offset" :> Val(offset)) ELSE p1
    IN  update(p2, extra_params)

----------------------------------------------------------------------------
(* The typed models (cinder.generated.models) and their (de)serialization *)

Types == {"Report", "PagedReport", "DecisionSchema", "PagedDecisionSchema",
          "Appeal", "PagedAppeal", "SchemaResponse",
          "CreateEntitiesAndRelationshipsResponseSchema",
          "StatusOkResponse", "WorkflowResult"}

\* A response body: whether it is JSON at all, and the typed shapes the JSON
\* value conforms to (one document may conform to several, or to none).
NotJson == [json |-> FALSE, shapes |-> {}]
Json(shapes) == [json |-> TRUE, shapes |-> shapes]
NoBody == [json |-> FALSE, shapes |-> {"-"}]

\* What a call gives its caller: a typed value, the raw response, or a raised
\* error.  status and data are the response's where the outcome carries them.
Value(T, body) == [kind |-> "value", type |-> T, status |-> 0, data |-> body]
RawResponse(resp) ==
    [kind |-> "response", type |-> "-", status |-> resp.status, data |-> resp.body]
HTTPStatusError(resp) ==
    [kind |-> "HTTPStatusError", type |-> "-", status |-> resp.status,
     data |-> resp.body]
Raised(err) == [kind |-> err, type |-> "-", status |-> 0, data |-> NoBody]

ErrorKinds == {"HTTPStatusError", "JSONDecodeError", "ValidationError",
               "TimeoutException", "ConnectError", "RuntimeError"}

\* payload.model_dump(mode="json", exclude_none=True): a typed payload is its
\* fields, each Optional; the fields left None are not emitted.
model_dump(payload) ==
    [k \in {f \in DOMAIN payload : payload[f] # None} |-> Val(payload[k])]

\* T.model_validate(data): the typed value when the JSON value conforms to T,
\* a ValidationError otherwise.
model_validate(T, body) ==
    IF T \in body.shapes THEN Value(T, body) ELSE Raised("ValidationError")

----------------------------------------------------------------------------
(* The HTTP transport (httpx.Client / httpx.AsyncClient) as the clients use it *)

\* Response.is_success, which raise_for_status() tests: 2xx.
is_success(status) == status \in 200..299

\* httpx merges the headers of one call over the client's default headers.
merge_headers(defaults, callHeaders) ==
    IF callHeaders = None THEN defaults ELSE update(defaults, Val(callHeaders))

\* Client.send: a closed client refuses with RuntimeError before anything is
\* sent; otherwise exactly the request built from the call goes on the wire.
send(cl, req) ==
    IF cl.connState = "closed"
    THEN [raised |-> "RuntimeError", wire |-> <<>>]
    ELSE [raised |-> NoError,
          wire |-> << [verb |-> req.verb, url |-> cl.base_url \o req.path,
                       params |-> req.params, json |-> req.json,
                       headers |-> merge_headers(cl.connHeaders, req.headers)] >>]

\* Client.close / AsyncClient.aclose: closes the transport unless the client
\* is closed already; never raises.
transport_close(cl) ==
    IF cl.connState # "closed"
    THEN [client |-> [cl EXCEPT !.connState = "closed",
                                !.releases = cl.releases + 1],
          raised |-> NoError]
    ELSE [client |-> cl, raised |-> NoError]

----------------------------------------------------------------------------
(* What a method body does with a response, in program order *)

Done(outcome, steps) == [outcome |-> outcome, steps |-> steps]

\* A statement that completed without raising: the body goes on.
Continue == [kind |-> "continue", type |-> "-", status |-> 0, data |-> NoBody]

\* response.raise_for_status(): raises HTTPStatusError unless the status is 2xx.
raise_for_status(response) ==
    Done(IF is_success(response.status) THEN Continue ELSE HTTPStatusError(response),
         <<"raise_for_status">>)

\* T.model_validate(response.json()): response.json() is evaluated first and
\* raises on a body that is not JSON.
validate_json(T, response) ==
    IF ~response.body.json
    THEN Done(Raised("JSONDecodeError"), <<"json">>)
    ELSE Done(model_validate(T, response.body), <<"json", T>>)

\* Two statements in program order: the second runs only if the first did
\* not raise (nothing in the clients catches an error).
Then(first, second) ==
    IF first.outcome.kind = "continue"
    THEN Done(second.outcome, first.steps \o second.steps)
    ELSE first

\* kwargs.get(k)
get(d, k) == IF k \in DOMAIN d THEN Some(d[k]) ELSE None

\* The request a method hands to the transport.
Request(verb, path, params, json, headers) ==
    [verb |-> verb, path |-> path, params |-> params, json |-> json,
     headers |-> headers]

----------------------------------------------------------------------------
(* CinderClient (client.py): per method, the request it hands to the
   transport and what it does with the response *)

CinderClient_create_report_request(a) ==
    Request("POST", <<"/api/v1/create_report", "/">>, None,
            Some(model_dump(a.payload)), None)


\* Variant: create_report sends its request once more after a 5xx answer.
CinderClient_create_report_result_retry(response) ==
    IF response.status >= 500
    THEN Done(HTTPStatusError(response),
              <<"raise_for_status", "send", "raise_for_status">>)
    ELSE Then(raise_for_status(response), validate_json("Report", response))

CinderClient_create_report_result(response) ==
    Then(raise_for_status(response),
         validate_json("Report", response))

CinderClient_list_reports_request(a) ==
    Request("GET", <<"/api/v1/report", "/">>,
            Some(_build_params(a.limit, a.offset, a.kwargs)), None, None)

\* Variant: list_reports keeps its response in a place the calls of a client
\* share, and reads there the response delivered most recently to any call.
CinderClient_list_reports_result_shared_response(response) ==
    LET seen == IF last.ev = "done" /\ last.responded THEN last.response
                ELSE response
    IN  Then(raise_for_status(seen), validate_json("PagedReport", seen))

CinderClient_list_reports_result(response) ==
    Then(raise_for_status(response),
         validate_json("PagedReport", response))

CinderClient_create_decision_request(a) ==
    Request("POST", <<"/api/v1/create_decision", "/">>, None,
            Some(model_dump(a.payload)), None)

CinderClient_create_decision_result(response) ==
    Then(raise_for_status(response),
         validate_json("DecisionSchema", response))

\* Variant: get_decision asks for /api/v1/decision/{id}, without the final
\* slash.
CinderClient_get_decision_request_no_slash(a) ==
    Request("GET", <<"/api/v1/decision", "/">> \o a.id, None, None, None)

CinderClient_get_decision_request(a) ==
    Request("GET", <<"/api/v1/decisions", "/">> \o a.id \o <<"/">>, None, None, None)

CinderClient_get_decision_result(response) ==
    Then(raise_for_status(response),
         validate_json("DecisionSchema", response))

\* Variant: list_decisions dumps the structured filter first and lays limit,
\* offset and the extra parameters over it.
CinderClient_list_decisions_request_filter_first(a) ==
    LET params == _build_params(a.limit, a.offset, a.kwargs)
    IN  Request("GET", <<"/api/v1/decisions", "/">>,
                Some(IF a.filters # None
                     THEN update(model_dump(Val(a.filters)), params)
                     ELSE params),
                None, None)

CinderClient_list_decisions_request(a) ==
    LET params == _build_params(a.limit, a.offset, a.kwargs)
    IN  Request("GET", <<"/api/v1/decisions", "/">>,
                Some(IF a.filters # None
                     THEN update(params, model_dump(Val(a.filters)))
                     ELSE params),
                None, None)

CinderClient_list_decisions_result(response) ==
    Then(raise_for_status(response),
         validate_json("PagedDecisionSchema", response))

CinderClient_get_appeal_request(a) ==
    Request("GET", <<"/api/v1/appeal", "/">> \o a.id \o <<"/">>, None, None, None)

CinderClient_get_appeal_result(response) ==
    Then(raise_for_status(response),
         validate_json("Appeal", response))

CinderClient_list_appeals_request(a) ==
    Request("GET", <<"/api/v1/appeal", "/">>,
            Some(_build_params(a.limit, a.offset, a.kwargs)), None, None)

CinderClient_list_appeals_result(response) ==
    Then(raise_for_status(response),
         validate_json("PagedAppeal", response))

CinderClient_get_graph_schema_request(a) ==
    Request("GET", <<"/api/v1/graph/schema", "/">>, None, None, None)

\* Variant: get_graph_schema builds its result from whatever the body holds
\* when the body does not validate.
CinderClient_get_graph_schema_result_best_effort(response) ==
    LET r == Then(raise_for_status(response),
                  validate_json("SchemaResponse", response))
    IN  IF r.outcome.kind = "ValidationError"
        THEN Done(Value("SchemaResponse", response.body), r.steps)
        ELSE r

CinderClient_get_graph_schema_result(response) ==
    Then(raise_for_status(response),
         validate_json("SchemaResponse", response))

CinderClient_upsert_request(a) ==
    LET payload == [entities |-> a.entities, relationships |-> a.relationships]
    IN  Request("POST", <<"/api/v1/graph", "/">>, None, Some(model_dump(payload)), None)

CinderClient_upsert_result(response) ==
    Then(raise_for_status(response),
         validate_json("CreateEntitiesAndRelationshipsResponseSchema", response))

CinderClient_send_event_request(a) ==
    Request("POST", <<"/api/v2/workflows/event", "/">>, None,
            Some(model_dump(a.payload)), None)

\* Variant: send_event branches on the status as send_event_sync does.
CinderClient_send_event_result_branching(response) ==
    Then(raise_for_status(response),
         IF response.status = 202
         THEN validate_json("StatusOkResponse", response)
         ELSE validate_json("WorkflowResult", response))

CinderClient_send_event_result(response) ==
    Then(raise_for_status(response),
         validate_json("StatusOkResponse", response))

CinderClient_send_event_sync_request(a) ==
    Request("POST", <<"/api/v2/workflows/event/sync", "/">>, None,
            Some(model_dump(a.payload)), None)


\* Variant: send_event_sync picks the type the body fits, trying
\* StatusOkResponse first.
CinderClient_send_event_sync_result_by_body(response) ==
    Then(raise_for_status(response),
         IF response.body.json /\ "StatusOkResponse" \in response.body.shapes
         THEN validate_json("StatusOkResponse", response)
         ELSE validate_json("WorkflowResult", response))

\* Variant: send_event_sync parses every answer as a WorkflowResult.
CinderClient_send_event_sync_result_no_branch(response) ==
    Then(raise_for_status(response), validate_json("WorkflowResult", response))

CinderClient_send_event_sync_result(response) ==
    Then(raise_for_status(response),
         IF response.status = 202
         THEN validate_json("StatusOkResponse", response)
         ELSE validate_json("WorkflowResult", response))

CinderClient_request_request(a) ==
    Request(a.method, a.path, get(a.kwargs, "params"), get(a.kwargs, "json"),
            get(a.kwargs, "headers"))

CinderClient_request_result(response) ==
    Then(raise_for_status(response),
         Done(RawResponse(response), <<>>))

----------------------------------------------------------------------------
(* SyncCinderClient (sync_client.py): per method, the request it hands to the
   transport and what it does with the response *)

SyncCinderClient_create_report_request(a) ==
    Request("POST", <<"/api/v1/create_report", "/">>, None,
            Some(model_dump(a.payload)), None)

SyncCinderClient_create_report_result(response) ==
    Then(raise_for_status(response),
         validate_json("Report", response))

SyncCinderClient_list_reports_request(a) ==
    Request("GET", <<"/api/v1/report", "/">>,
            Some(_build_params(a.limit, a.offset, a.kwargs)), None, None)

SyncCinderClient_list_reports_result(response) ==
    Then(raise_for_status(response),
         validate_json("PagedReport", response))

\* Variant: create_decision dumps the payload without exclude_none, so a field
\* left None is emitted as null.
SyncCinderClient_create_decision_request_with_nulls(a) ==
    Request("POST", <<"/api/v1/create_decision", "/">>, None,
            Some([f \in DOMAIN a.payload |->
                    IF a.payload[f] = None THEN <<"null">> ELSE Val(a.payload[f])]),
            None)

SyncCinderClient_create_decision_request(a) ==
    Request("POST", <<"/api/v1/create_decision", "/">>, None,
            Some(model_dump(a.payload)), None)

\* Variant: create_decision catches what the body raised and raises an error
\* of its own in its place.
SyncCinderClient_create_decision_result_wrapped(response) ==
    LET r == Then(raise_for_status(response),
                  validate_json("DecisionSchema", response))
    IN  IF r.outcome.kind \in {"HTTPStatusError", "ValidationError"}
        THEN Done(Raised("RuntimeError"), r.steps)
        ELSE r

SyncCinderClient_create_decision_result(response) ==
    Then(raise_for_status(response),
         validate_json("DecisionSchema", response))

SyncCinderClient_get_decision_request(a) ==
    Request("GET", <<"/api/v1/decisions", "/">> \o a.id \o <<"/">>, None, None, None)

SyncCinderClient_get_decision_result(response) ==
    Then(raise_for_status(response),
         validate_json("DecisionSchema", response))

SyncCinderClient_list_decisions_request(a) ==
    LET params == _build_params(a.limit, a.offset, a.kwargs)
    IN  Request("GET", <<"/api/v1/decisions", "/">>,
                Some(IF a.filters # None
                     THEN update(params, model_dump(Val(a.filters)))
                     ELSE params),
                None, None)

SyncCinderClient_list_decisions_result(response) ==
    Then(raise_for_status(response),
         validate_json("PagedDecisionSchema", response))

SyncCinderClient_get_appeal_request(a) ==
    Request("GET", <<"/api/v1/appeal", "/">> \o a.id \o <<"/">>, None, None, None)

SyncCinderClient_get_appeal_result(response) ==
    Then(raise_for_status(response),
         validate_json("Appeal", response))

SyncCinderClient_list_appeals_request(a) ==
    Request("GET", <<"/api/v1/appeal", "/">>,
            Some(_build_params(a.limit, a.offset, a.kwargs)), None, None)

SyncCinderClient_list_appeals_result(response) ==
    Then(raise_for_status(response),
         validate_json("PagedAppeal", response))

SyncCinderClient_get_graph_schema_request(a) ==
    Request("GET", <<"/api/v1/graph/schema", "/">>, None, None, None)


\* Variant: get_graph_schema parses the body before it checks the status.
SyncCinderClient_get_graph_schema_result_parse_first(response) ==
    LET v == validate_json("SchemaResponse", response)
    IN  IF v.outcome.kind # "value" THEN v
        ELSE Done(IF is_success(response.status) THEN v.outcome
                  ELSE HTTPStatusError(response),
                  v.steps \o <<"raise_for_status">>)

\* Variant: get_graph_schema closes the client when the call fails.
SyncCinderClient_get_graph_schema_result_close_on_error(response) ==
    LET r == Then(raise_for_status(response),
                  validate_json("SchemaResponse", response))
    IN  IF r.outcome.kind \in ErrorKinds
        THEN Done(r.outcome, r.steps \o <<"close">>)
        ELSE r

SyncCinderClient_get_graph_schema_result(response) ==
    Then(raise_for_status(response),
         validate_json("SchemaResponse", response))

SyncCinderClient_upsert_request(a) ==
    LET payload == [entities |-> a.entities, relationships |-> a.relationships]
    IN  Request("POST", <<"/api/v1/graph", "/">>, None, Some(model_dump(payload)), None)

SyncCinderClient_upsert_result(response) ==
    Then(raise_for_status(response),
         validate_json("CreateEntitiesAndRelationshipsResponseSchema", response))

SyncCinderClient_send_event_request(a) ==
    Request("POST", <<"/api/v2/workflows/event", "/">>, None,
            Some(model_dump(a.payload)), None)

SyncCinderClient_send_event_result(response) ==
    Then(raise_for_status(response),
         validate_json("StatusOkResponse", response))

SyncCinderClient_send_event_sync_request(a) ==
    Request("POST", <<"/api/v2/workflows/event/sync", "/">>, None,
            Some(model_dump(a.payload)), None)

\* Variant: the blocking send_event_sync tests for status 200 instead of 202.
SyncCinderClient_send_event_sync_result_branch_on_200(response) ==
    Then(raise_for_status(response),
         IF response.status = 200
         THEN validate_json("WorkflowResult", response)
         ELSE validate_json("StatusOkResponse", response))

SyncCinderClient_send_event_sync_result(response) ==
    Then(raise_for_status(response),
         IF response.status = 202
         THEN validate_json("StatusOkResponse", response)
         ELSE validate_json("WorkflowResult", response))

SyncCinderClient_request_request(a) ==
    Request(a.method, a.path, get(a.kwargs, "params"), get(a.kwargs, "json"),
            get(a.kwargs, "headers"))


\* Variant: the generic request method hands back the response unchecked.
SyncCinderClient_request_result_unchecked(response) ==
    Done(RawResponse(response), <<>>)

SyncCinderClient_request_result(response) ==
    Then(raise_for_status(response),
         Done(RawResponse(response), <<>>))

----------------------------------------------------------------------------
(* Client objects: construction, scope, release *)

NoClient == [kind |-> "none"]

\* The object state after __init__.  headers is self.headers: the dict that
\* BaseCinderClient.__init__ filled; connHeaders is the transport's own copy,
\* taken when httpx.AsyncClient(...) / httpx.Client(...) is constructed.
\* given (the headers argument as passed), hdrRef (whether self.headers is a
\* dict object the caller still holds), releases (how often the transport was
\* closed) and scope are kept for the properties.
NewClient(kind, base, hdrs) ==
    [kind |-> kind, base_url |-> base.base_url, token |-> base.token,
     timeout |-> base.timeout, headers |-> base.headers,
     given |-> hdrs, hdrRef |-> "own",
     connHeaders |-> base.headers, connState |-> "open",
     releases |-> 0, scope |-> "out"]

\* CinderClient.__init__
CinderClient_init(base_url, token, timeout, hdrs) ==
    NewClient("async", BaseCinderClient_init(base_url, token, timeout, hdrs), hdrs)

\* SyncCinderClient.__init__
SyncCinderClient_init(base_url, token, timeout, hdrs) ==
    NewClient("sync", BaseCinderClient_init(base_url, token, timeout, hdrs), hdrs)

\* CinderClient.close: await self.client.aclose()

\* Variant: close insists on an open connection.
CinderClient_close_strict(self) ==
    IF self.connState = "closed"
    THEN [client |-> self, raised |-> "RuntimeError"]
    ELSE transport_close(self)

CinderClient_close(self) == transport_close(self)

\* SyncCinderClient.close: self.client.close()
SyncCinderClient_close(self) == transport_close(self)

\* Variant: __aenter__ opens the connection again.
CinderClient_aenter_reopens(self) == [self EXCEPT !.connState = "open"]

\* CinderClient.__aenter__: return self
CinderClient_aenter(self) == self

\* SyncCinderClient.__enter__: return self
SyncCinderClient_enter(self) == self

\* Variant: __aexit__ returns a true value.
CinderClient_aexit_suppresses(self, exc) ==
    LET r == CinderClient_close(self)
    IN  [client |-> r.client, raised |-> r.raised, closes |-> 1,
         suppress |-> TRUE]

\* CinderClient.__aexit__(*args): await self.close(); returns None, so an
\* error that left the scope is not suppressed.
CinderClient_aexit(self, exc) ==
    LET r == CinderClient_close(self)
    IN  [client |-> r.client, raised |-> r.raised, closes |-> 1,
         suppress |-> FALSE]

\* SyncCinderClient.__exit__(*args): self.close(); returns None.

\* Variant: __exit__ releases only when the scope ended without an error.
SyncCinderClient_exit_skip_on_error(self, exc) ==
    IF exc = NoError
    THEN LET r == SyncCinderClient_close(self)
         IN  [client |-> r.client, raised |-> r.raised, closes |-> 1,
              suppress |-> FALSE]
    ELSE [client |-> self, raised |-> NoError, closes |-> 0, suppress |-> FALSE]

SyncCinderClient_exit(self, exc) ==
    LET r == SyncCinderClient_close(self)
    IN  [client |-> r.client, raised |-> r.raised, closes |-> 1,
         suppress |-> FALSE]

\* `if not token` / `if not base_url` on the value os.environ.get returned.
falsy(o) == o = None \/ Val(o) = <<>>

\* The variables a factory looked up with os.environ.get; resolved_url: it
\* got past the token and resolved base_url too.
Consulted(token, base_url, resolved_url) ==
    (IF token = None THEN {"CINDER_API_TOKEN"} ELSE {})
        \cup (IF resolved_url /\ base_url = None
              THEN {"CINDER_API_BASE_URL"} ELSE {})

\* Variant: get_client tests the resolved value whether it came from the
\* argument or from the environment.
get_client_checks_value(token, base_url, hdrs, environ) ==
    LET tok == IF token = None THEN get(environ, "CINDER_API_TOKEN") ELSE token
        url == IF base_url = None THEN get(environ, "CINDER_API_BASE_URL")
               ELSE base_url
    IN  IF falsy(tok)
        THEN [raised |-> "ValueError", about |-> "token", client |-> NoClient,
              consulted |-> Consulted(token, base_url, FALSE)]
        ELSE IF falsy(url)
        THEN [raised |-> "ValueError", about |-> "base_url", client |-> NoClient,
              consulted |-> Consulted(token, base_url, TRUE)]
        ELSE [raised |-> NoError, about |-> "-",
              client |-> CinderClient_init(Val(url), Val(tok), DefaultTimeout, hdrs),
              consulted |-> Consulted(token, base_url, TRUE)]

\* get_client(token, base_url, **kwargs): environ is os.environ.
get_client(token, base_url, hdrs, environ) ==
    LET tok == IF token = None THEN get(environ, "CINDER_API_TOKEN") ELSE token
        url == IF base_url = None THEN get(environ, "CINDER_API_BASE_URL")
               ELSE base_url
    IN  IF token = None /\ falsy(tok)
        THEN [raised |-> "ValueError", about |-> "token", client |-> NoClient,
              consulted |-> Consulted(token, base_url, FALSE)]
        ELSE IF base_url = None /\ falsy(url)
        THEN [raised |-> "ValueError", about |-> "base_url", client |-> NoClient,
              consulted |-> Consulted(token, base_url, TRUE)]
        ELSE [raised |-> NoError, about |-> "-",
              client |-> CinderClient_init(Val(url), Val(tok), DefaultTimeout, hdrs),
              consulted |-> Consulted(token, base_url, TRUE)]


\* Variant: get_sync_client checks the base URL only after it has built the
\* client.
get_sync_client_late_check(token, base_url, hdrs, environ) ==
    LET tok == IF token = None THEN get(environ, "CINDER_API_TOKEN") ELSE token
        url == IF base_url = None THEN get(environ, "CINDER_API_BASE_URL")
               ELSE base_url
    IN  IF token = None /\ falsy(tok)
        THEN [raised |-> "ValueError", about |-> "token", client |-> NoClient,
              consulted |-> Consulted(token, base_url, FALSE)]
        ELSE IF base_url = None /\ falsy(url)
        THEN [raised |-> "ValueError", about |-> "base_url",
              client |-> SyncCinderClient_init(<<>>, Val(tok), DefaultTimeout, hdrs),
              consulted |-> Consulted(token, base_url, TRUE)]
        ELSE [raised |-> NoError, about |-> "-",
              client |-> SyncCinderClient_init(Val(url), Val(tok), DefaultTimeout, hdrs),
              consulted |-> Consulted(token, base_url, TRUE)]

\* get_sync_client(token, base_url, **kwargs)
get_sync_client(token, base_url, hdrs, environ) ==
    LET tok == IF token = None THEN get(environ, "CINDER_API_TOKEN") ELSE token
        url == IF base_url = None THEN get(environ, "CINDER_API_BASE_URL")
               ELSE base_url
    IN  IF token = None /\ falsy(tok)
        THEN [raised |-> "ValueError", about |-> "token", client |-> NoClient,
              consulted |-> Consulted(token, base_url, FALSE)]
        ELSE IF base_url = None /\ falsy(url)
        THEN [raised |-> "ValueError", about |-> "base_url", client |-> NoClient,
              consulted |-> Consulted(token, base_url, TRUE)]
        ELSE [raised |-> NoError, about |-> "-",
              client |-> SyncCinderClient_init(Val(url), Val(tok), DefaultTimeout, hdrs),
              consulted |-> Consulted(token, base_url, TRUE)]

----------------------------------------------------------------------------
(* Dispatch on the client class and the method called *)

Ops == {"create_report", "list_reports", "create_decision", "get_decision",
        "list_decisions", "get_appeal", "list_appeals", "get_graph_schema",
        "upsert", "send_event", "send_event_sync", "request"}

CinderClient_request_of(op, a) ==
    CASE op = "create_report" -> CinderClient_create_report_request(a)
      [] op = "list_reports" -> CinderClient_list_reports_request(a)
      [] op = "create_decision" -> CinderClient_create_decision_request(a)
      [] op = "get_decision" -> CinderClient_get_decision_request(a)
      [] op = "list_decisions" -> CinderClient_list_decisions_request(a)
      [] op = "get_appeal" -> CinderClient_get_appeal_request(a)
      [] op = "list_appeals" -> CinderClient_list_appeals_request(a)
      [] op = "get_graph_schema" -> CinderClient_get_graph_schema_request(a)
      [] op = "upsert" -> CinderClient_upsert_request(a)
      [] op = "send_event" -> CinderClient_send_event_request(a)
      [] op = "send_event_sync" -> CinderClient_send_event_sync_request(a)
      [] op = "request" -> CinderClient_request_request(a)

SyncCinderClient_request_of(op, a) ==
    CASE op = "create_report" -> SyncCinderClient_create_report_request(a)
      [] op = "list_reports" -> SyncCinderClient_list_reports_request(a)
      [] op = "create_decision" -> SyncCinderClient_create_decision_request(a)
      [] op = "get_decision" -> SyncCinderClient_get_decision_request(a)
      [] op = "list_decisions" -> SyncCinderClient_list_decisions_request(a)
      [] op = "get_appeal" -> SyncCinderClient_get_appeal_request(a)
      [] op = "list_appeals" -> SyncCinderClient_list_appeals_request(a)
      [] op = "get_graph_schema" -> SyncCinderClient_get_graph_schema_request(a)
      [] op = "upsert" -> SyncCinderClient_upsert_request(a)
      [] op = "send_event" -> SyncCinderClient_send_event_request(a)
      [] op = "send_event_sync" -> SyncCinderClient_send_event_sync_request(a)
      [] op = "request" -> SyncCinderClient_request_request(a)

CinderClient_result_of(op, response) ==
    CASE op = "create_report" -> CinderClient_create_report_result(response)
      [] op = "list_reports" -> CinderClient_list_reports_result(response)
      [] op = "create_decision" -> CinderClient_create_decision_result(response)
      [] op = "get_decision" -> CinderClient_get_decision_result(response)
      [] op = "list_decisions" -> CinderClient_list_decisions_result(response)
      [] op = "get_appeal" -> CinderClient_get_appeal_result(response)
      [] op = "list_appeals" -> CinderClient_list_appeals_result(response)
      [] op = "get_graph_schema" -> CinderClient_get_graph_schema_result(response)
      [] op = "upsert" -> CinderClient_upsert_result(response)
      [] op = "send_event" -> CinderClient_send_event_result(response)
      [] op = "send_event_sync" -> CinderClient_send_event_sync_result(response)
      [] op = "request" -> CinderClient_request_result(response)

SyncCinderClient_result_of(op, response) ==
    CASE op = "create_report" -> SyncCinderClient_create_report_result(response)
      [] op = "list_reports" -> SyncCinderClient_list_reports_result(response)
      [] op = "create_decision" -> SyncCinderClient_create_decision_result(response)
      [] op = "get_decision" -> SyncCinderClient_get_decision_result(response)
      [] op = "list_decisions" -> SyncCinderClient_list_decisions_result(response)
      [] op = "get_appeal" -> SyncCinderClient_get_appeal_result(response)
      [] op = "list_appeals" -> SyncCinderClient_list_appeals_result(response)
      [] op = "get_graph_schema" -> SyncCinderClient_get_graph_schema_result(response)
      [] op = "upsert" -> SyncCinderClient_upsert_result(response)
      [] op = "send_event" -> SyncCinderClient_send_event_result(response)
      [] op = "send_event_sync" -> SyncCinderClient_send_event_sync_result(response)
      [] op = "request" -> SyncCinderClient_request_result(response)

MethodRequest(kind, op, a) ==
    IF kind = "async" THEN CinderClient_request_of(op, a)
    ELSE SyncCinderClient_request_of(op, a)

MethodResult(kind, op, response) ==
    IF kind = "async" THEN CinderClient_result_of(op, response)
    ELSE SyncCinderClient_result_of(op, response)

Construct_of(kind, base_url, token, timeout, hdrs) ==
    IF kind = "async" THEN CinderClient_init(base_url, token, timeout, hdrs)
    ELSE SyncCinderClient_init(base_url, token, timeout, hdrs)

Close_of(self) ==
    IF self.kind = "async" THEN CinderClient_close(self)
    ELSE SyncCinderClient_close(self)

Enter_of(self) ==
    IF self.kind = "async" THEN CinderClient_aenter(self)
    ELSE SyncCinderClient_enter(self)

Exit_of(self, exc) ==
    IF self.kind = "async" THEN CinderClient_aexit(self, exc)
    ELSE SyncCinderClient_exit(self, exc)

Factory_of(kind, token, base_url, hdrs, environ) ==
    IF kind = "async" THEN get_client(token, base_url, hdrs, environ)
    ELSE get_sync_client(token, base_url, hdrs, environ)

----------------------------------------------------------------------------
(* State *)

Idle == [st |-> "idle"]

NoResponse == [status |-> 0, body |-> NoBody]

\* The headers argument of a constructor call: absent, a dict built for this
\* call, or the dict object `shared` that the caller keeps and passes again.
NoHeaders == [how |-> "none", dict |-> EmptyDict]
Fresh(d) == [how |-> "own", dict |-> d]
Shared == [how |-> "shared", dict |-> EmptyDict]

HeadersArg(h) ==
    CASE h.how = "none" -> None
      [] h.how = "own" -> Some(h.dict)
      [] h.how = "shared" -> Some(shared)

\* The client object after a method body ran its steps: a method that closed
\* the transport would leave it closed (no method of the clients does).
AfterSteps(cl, steps) ==
    IF \E i \in DOMAIN steps : steps[i] = "close"
    THEN transport_close(cl).client
    ELSE cl

\* How many requests a method body sends after it has its response.
RECURSIVE Resent(_)
Resent(steps) ==
    IF steps = <<>> THEN 0
    ELSE (IF Head(steps) = "send" THEN 1 ELSE 0) + Resent(Tail(steps))

InitWith(environ, sharedDict) ==
    /\ env = environ
    /\ shared = sharedDict
    /\ clients = [c \in Clients |-> NoClient]
    /\ tasks = [t \in Tasks |-> Idle]
    /\ ncalls = 0
    /\ nreqs = 0
    /\ nrefused = 0
    /\ last = [ev |-> "start"]

----------------------------------------------------------------------------
(* Operations *)

\* CinderClient(base_url, token, timeout, headers=...) or the same call of
\* SyncCinderClient.  A dict the caller passes is the object that __init__
\* fills, so a shared dict is changed for the caller too.
Construct(c, kind, base_url, token, timeout, h) ==
    /\ clients[c] = NoClient
    /\ LET hdrs == HeadersArg(h)
           obj == Construct_of(kind, base_url, token, timeout, hdrs)
       IN  /\ clients' = [clients EXCEPT ![c] = [obj EXCEPT !.hdrRef = h.how]]
           /\ shared' = IF h.how = "shared" THEN obj.headers ELSE shared
           /\ last' = [ev |-> "construct", client |-> c, kind |-> kind,
                       base_url |-> base_url, token |-> token, given |-> hdrs,
                       sharedBefore |-> shared, passedShared |-> h.how = "shared"]
    /\ UNCHANGED <<env, tasks, ncalls, nreqs, nrefused>>

\* get_client(token, base_url, headers=...) / get_sync_client(...)
GetClient(c, kind, token, base_url, h) ==
    /\ clients[c] = NoClient
    /\ LET hdrs == HeadersArg(h)
           r == Factory_of(kind, token, base_url, hdrs, env)
           made == r.client # NoClient
       IN  /\ clients' = IF made
                         THEN [clients EXCEPT ![c] = [r.client EXCEPT !.hdrRef = h.how]]
                         ELSE clients
           /\ shared' = IF made /\ h.how = "shared" THEN r.client.headers ELSE shared
           /\ last' = [ev |-> "get_client", client |-> c, kind |-> kind,
                       token |-> token, base_url |-> base_url,
                       given |-> hdrs, raised |-> r.raised, about |-> r.about,
                       constructed |-> made, reqsBefore |-> nreqs,
                       consulted |-> r.consulted]
    /\ UNCHANGED <<env, tasks, ncalls, nreqs, nrefused>>

\* Some task of the caller is free to act on the client.
CallerFree == \E t \in Tasks : tasks[t] = Idle

\* client.close() / await client.close()
Close(c) ==
    /\ clients[c] # NoClient
    /\ CallerFree
    /\ LET r == Close_of(clients[c])
       IN  /\ clients' = [clients EXCEPT ![c] = r.client]
           /\ last' = [ev |-> "close", client |-> c, raised |-> r.raised,
                       wasClosed |-> clients[c].connState = "closed",
                       wasUsed |-> nreqs > 0,
                       inScope |-> clients[c].scope = "in"]
    /\ UNCHANGED <<env, shared, tasks, ncalls, nreqs, nrefused>>

\* `with client:` / `async with client:` entered
Enter(c) ==
    /\ clients[c] # NoClient
    /\ clients[c].scope = "out"
    /\ CallerFree
    /\ LET bound == Enter_of(clients[c])
       IN  /\ clients' = [clients EXCEPT ![c] = [bound EXCEPT !.scope = "in"]]
           /\ last' = [ev |-> "enter", client |-> c,
                       returnedSelf |-> bound = clients[c]]
    /\ UNCHANGED <<env, shared, tasks, ncalls, nreqs, nrefused>>

\* The scope is left: normally (exc = NoError) or because exc was raised
\* inside it.  What leaves the `with` statement is the error __exit__ raised,
\* else exc unless __exit__ returned a true value.
Exit(c, exc) ==
    /\ clients[c] # NoClient
    /\ clients[c].scope = "in"
    /\ CallerFree
    /\ LET r == Exit_of(clients[c], exc)
       IN  /\ clients' = [clients EXCEPT ![c] = [r.client EXCEPT !.scope = "out"]]
           /\ last' = [ev |-> "exit", client |-> c, exc |-> exc,
                       raised |-> r.raised, closes |-> r.closes,
                       propagated |-> IF r.raised # NoError THEN r.raised
                                      ELSE IF r.suppress THEN NoError ELSE exc,
                       wasClosed |-> clients[c].connState = "closed",
                       releasesBefore |-> clients[c].releases]
    /\ UNCHANGED <<env, shared, tasks, ncalls, nreqs, nrefused>>

\* Task t calls method op of client c: the method builds its request and
\* hands it to the transport.  A released client's transport refuses, and the
\* call ends at once with that error; otherwise the call waits for the
\* response.
Call(t, c, op, a) ==
    /\ tasks[t] = Idle
    /\ clients[c] # NoClient
    /\ ncalls < MaxCalls
    /\ LET cl == clients[c]
           req == MethodRequest(cl.kind, op, a)
           s == send(cl, req)
       IN  /\ tasks' = IF s.raised = NoError
                       THEN [tasks EXCEPT ![t] =
                               [st |-> "inflight", client |-> c, op |-> op,
                                args |-> a, wire |-> s.wire]]
                       ELSE tasks
           /\ nreqs' = nreqs + Len(s.wire)
           /\ nrefused' = nrefused + (IF s.raised = NoError THEN 0 ELSE 1)
           /\ last' = IF s.raised = NoError
                      THEN [ev |-> "call", task |-> t, client |-> c,
                            kind |-> cl.kind, op |-> op, args |-> a,
                            sent |-> Len(s.wire), wire |-> s.wire]
                      ELSE [ev |-> "done", task |-> t, client |-> c,
                            kind |-> cl.kind, op |-> op, responded |-> FALSE,
                            response |-> NoResponse,
                            outcome |-> Raised(s.raised), steps |-> <<>>,
                            sent |-> Len(s.wire), wire |-> s.wire,
                            refused |-> TRUE, error |-> s.raised]
    /\ ncalls' = ncalls + 1
    /\ UNCHANGED <<env, shared, clients>>

\* The response to task t's request arrives and the method body runs on.
Respond(t, status, body) ==
    /\ tasks[t] # Idle
    /\ LET call == tasks[t]
           cl == clients[call.client]
           response == [status |-> status, body |-> body]
           r == MethodResult(cl.kind, call.op, response)
       IN  /\ nreqs' = nreqs + Resent(r.steps)
           /\ clients' = [clients EXCEPT ![call.client] = AfterSteps(cl, r.steps)]
           /\ last' = [ev |-> "done", task |-> t, client |-> call.client,
                       kind |-> cl.kind, op |-> call.op, responded |-> TRUE,
                       response |-> response,
                       outcome |-> r.outcome, steps |-> r.steps,
                       sent |-> Len(call.wire) + Resent(r.steps),
                       wire |-> call.wire, refused |-> FALSE,
                       error |-> NoError]
    /\ tasks' = [tasks EXCEPT ![t] = Idle]
    /\ UNCHANGED <<env, shared, ncalls, nrefused>>

\* Task t's request fails in the transport (a timeout, a connection error):
\* the error leaves the method as it is.
Fail(t, err) ==
    /\ tasks[t] # Idle
    /\ LET call == tasks[t]
       IN  last' = [ev |-> "done", task |-> t, client |-> call.client,
                    kind |-> clients[call.client].kind, op |-> call.op,
                    responded |-> FALSE, response |-> NoResponse,
                    outcome |-> Raised(err), steps |-> <<>>,
                    sent |-> Len(call.wire), wire |-> call.wire,
                    refused |-> FALSE, error |-> err]
    /\ tasks' = [tasks EXCEPT ![t] = Idle]
    /\ UNCHANGED <<env, shared, clients, ncalls, nreqs, nrefused>>

----------------------------------------------------------------------------
(* Inputs *)

ApiUrl == <<"https://api.example.com">>
Token1 == <<"test-token">>
Token2 == <<"other-token">>

Statuses == {200, 201, 202, 301, 403, 422, 500, 504}

TransportErrors == {"TimeoutException", "ConnectError"}

\* What may be raised inside a `with` block (NoError: the block ends normally).
ScopeErrors ==
    {NoError, "HTTPStatusError", "ValidationError", "ConnectError", "KeyError"}

\* The bodies a server may answer a method with: not JSON, JSON of no known
\* shape, JSON of the shape the method declares; for the two event methods
\* also the other event shape, and a document that fits both.
Declared(op) ==
    CASE op = "create_report" -> {"Report"}
      [] op = "list_reports" -> {"PagedReport"}
      [] op = "create_decision" -> {"DecisionSchema"}
      [] op = "get_decision" -> {"DecisionSchema"}
      [] op = "list_decisions" -> {"PagedDecisionSchema"}
      [] op = "get_appeal" -> {"Appeal"}
      [] op = "list_appeals" -> {"PagedAppeal"}
      [] op = "get_graph_schema" -> {"SchemaResponse"}
      [] op = "upsert" -> {"CreateEntitiesAndRelationshipsResponseSchema"}
      [] op = "send_event" -> {"StatusOkResponse", "WorkflowResult"}
      [] op = "send_event_sync" -> {"StatusOkResponse", "WorkflowResult"}
      [] op = "request" -> {}

Bodies(op) ==
    {NotJson, Json({})} \cup {Json({T}) : T \in Declared(op)}
    \cup (IF op = "send_event_sync" THEN {Json(Declared(op))} ELSE {})

\* A call's arguments; a method reads the ones it declares.  limit, offset,
\* filters and kwargs are the parameters as bound; positional and keywords are
\* the call as the caller wrote it, where the binding itself is in question.
Args0 ==
    [id |-> <<>>, limit |-> None, offset |-> None, kwargs |-> EmptyDict,
     filters |-> None, payload |-> EmptyDict, entities |-> None,
     relationships |-> None, method |-> "-", path |-> <<>>,
     positional |-> <<>>, keywords |-> EmptyDict]

SamplePayload == [entity |-> Some(<<"user:123">>), note |-> None]

\* One representative argument list per method.
PlainArgs(op) ==
    CASE op \in {"create_report", "create_decision", "send_event", "send_event_sync"}
           -> {[Args0 EXCEPT !.payload = SamplePayload]}
      [] op \in {"get_decision", "get_appeal"} -> {[Args0 EXCEPT !.id = <<"42">>]}
      [] op \in {"list_reports", "list_decisions", "list_appeals"}
           -> {[Args0 EXCEPT !.limit = Some(10)]}
      [] op = "upsert" -> {[Args0 EXCEPT !.entities = Some(<<"e1">>)]}
      [] op = "get_graph_schema" -> {Args0}
      [] op = "request"
           -> {[Args0 EXCEPT !.method = "GET", !.path = <<"/api/v1/custom-endpoint", "/">>]}

Busy == {t \in Tasks : tasks[t] # Idle}

----------------------------------------------------------------------------
(* A list method called with positional and keyword arguments *)

ListOps == {"list_reports", "list_decisions", "list_appeals"}

\* The parameters a list method names before **filters / **extra_params.
Named(op) ==
    IF op = "list_decisions" THEN <<"limit", "offset", "filters">>
    ELSE <<"limit", "offset">>

\* Variant: a keyword that names a parameter already given by position is
\* left among the additional filters.
bind_arguments_keeps_duplicate(op, pos, kw) ==
    LET names == Named(op)
        arg(i) == IF i <= Len(pos) THEN Some(pos[i])
                  ELSE IF i <= Len(names) THEN get(kw, names[i]) ELSE None
        unbound == {names[i] : i \in (Len(pos) + 1)..Len(names)}
    IN  [raised |-> NoError,
         args |-> [Args0 EXCEPT !.positional = pos, !.keywords = kw,
                                !.limit = arg(1), !.offset = arg(2),
                                !.filters = arg(3),
                                !.kwargs = [k \in DOMAIN kw \ unbound |-> kw[k]]]]

\* How Python binds the arguments of list_reports(limit, offset, **filters),
\* list_appeals (the same) and list_decisions(limit, offset, filters,
\* **extra_params): a keyword that names a parameter is bound to that
\* parameter and never reaches the ** dict; a parameter given both by
\* position and by keyword, or a position no parameter takes, is a TypeError
\* raised before the method body runs.
bind_arguments(op, pos, kw) ==
    LET names == Named(op)
        twice == {i \in 1..Len(pos) : i <= Len(names) /\ names[i] \in DOMAIN kw}
        arg(i) == IF i <= Len(pos) THEN Some(pos[i])
                  ELSE IF i <= Len(names) THEN get(kw, names[i]) ELSE None
        named == {names[i] : i \in 1..Len(names)}
    IN  IF Len(pos) > Len(names) \/ twice # {}
        THEN [raised |-> "TypeError", args |-> Args0]
        ELSE [raised |-> NoError,
              args |-> [Args0 EXCEPT !.positional = pos, !.keywords = kw,
                                     !.limit = arg(1), !.offset = arg(2),
                                     !.filters = arg(3),
                                     !.kwargs = [k \in DOMAIN kw \ named |-> kw[k]]]]

\* Task t calls list method op of client c with the arguments as written.
\* Where they do not bind, the call expression raises and the method is
\* never entered; otherwise the call goes on as Call does.
CallKeywords(t, c, op, pos, kw) ==
    LET b == bind_arguments(op, pos, kw)
    IN  IF b.raised = NoError
        THEN Call(t, c, op, b.args)
        ELSE /\ tasks[t] = Idle
             /\ clients[c] # NoClient
             /\ last' = [ev |-> "bind_error", task |-> t, client |-> c,
                         kind |-> clients[c].kind, op |-> op,
                         positional |-> pos, keywords |-> kw,
                         raised |-> b.raised, wire |-> <<>>,
                         reqsBefore |-> nreqs]
             /\ UNCHANGED <<env, shared, clients, tasks, ncalls, nreqs, nrefused>>

----------------------------------------------------------------------------
(* Spec: one client of either class, every method, every kind of response,
   scope and release, two caller tasks *)

Init == InitWith(EmptyDict, EmptyDict)

Next ==
    \/ \E k \in Kinds : Construct("c1", k, ApiUrl, Token1, DefaultTimeout, NoHeaders)
    \/ Close("c1")
    \/ Enter("c1")
    \/ \E exc \in ScopeErrors : Exit("c1", exc)
    \/ \E t \in Tasks, op \in Ops : \E a \in PlainArgs(op) : Call(t, "c1", op, a)
    \/ \E t \in Busy, status \in Statuses :
          \E body \in Bodies(tasks[t].op) : Respond(t, status, body)
    \/ \E t \in Busy, err \in TransportErrors : Fail(t, err)

Spec == Init /\ [][Next]_vars

----------------------------------------------------------------------------
(* SpecFactory: get_client / get_sync_client under every environment, and
   calls through the clients they return *)

EnvToken == <<"env-token">>
EnvUrl == <<"https://env.example.com">>

Environments ==
    {tok @@ url :
        tok \in {EmptyDict, "CINDER_API_TOKEN" :> <<>>, "CINDER_API_TOKEN" :> EnvToken},
        url \in {EmptyDict, "CINDER_API_BASE_URL" :> <<>>,
                 "CINDER_API_BASE_URL" :> EnvUrl}}

TokenArgs == {None, Some(<<>>), Some(Token1)}
UrlArgs == {None, Some(<<>>), Some(ApiUrl \o <<"/">>)}

InitFactory == \E e \in Environments : InitWith(e, EmptyDict)

NextFactory ==
    \/ \E c \in Clients, k \in Kinds, token \in TokenArgs, base_url \in UrlArgs :
          GetClient(c, k, token, base_url, NoHeaders)
    \/ \E c \in Clients : Call("t1", c, "get_graph_schema", Args0)
    \/ \E t \in Busy, status \in {200, 403} :
          Respond(t, status, Json({"SchemaResponse"}))

SpecFactory == InitFactory /\ [][NextFactory]_vars

----------------------------------------------------------------------------
(* SpecHeaders: the constructors under every headers argument, two clients
   that may be given the same dict object, and the requests they send *)

Urls == {ApiUrl, ApiUrl \o <<"/">>, ApiUrl \o <<"/", "/">>,
         ApiUrl \o <<"/", "v1", "/">>, <<"/">>}

BasicAuth == <<"Basic dXNlcjpwdw==">>

HeaderArgs ==
    {NoHeaders, Shared,
     Fresh("Authorization" :> BasicAuth),
     Fresh(("Content-Type" :> <<"text/plain">>) @@ ("X-Trace" :> <<"1">>)),
     Fresh("authorization" :> BasicAuth)}

\* A call with no headers of its own, and generic requests that pass their own.
HeaderCalls ==
    {<<"get_graph_schema", Args0>>,
     <<"request", [Args0 EXCEPT !.method = "GET", !.path = <<"/api/v1/custom-endpoint", "/">>]>>,
     <<"request", [Args0 EXCEPT !.method = "GET", !.path = <<"/api/v1/custom-endpoint", "/">>,
                                !.kwargs = "headers" :> ("Authorization" :> BasicAuth)]>>,
     <<"request", [Args0 EXCEPT !.method = "GET", !.path = <<"/api/v1/custom-endpoint", "/">>,
                                !.kwargs = "headers" :> ("X-Trace" :> <<"2">>)]>>}

InitHeaders ==
    \E d \in {EmptyDict, "X-Trace" :> <<"0">>} : InitWith(EmptyDict, d)

NextHeaders ==
    \/ \E c \in Clients, k \in Kinds, base_url \in Urls,
          token \in {Token1, Token2}, h \in HeaderArgs :
          Construct(c, k, base_url, token, DefaultTimeout, h)
    \/ \E c \in Clients, call \in HeaderCalls : Call("t1", c, call[1], call[2])
    \/ \E t \in Busy : Respond(t, 200, Json({"SchemaResponse"}))

SpecHeaders == InitHeaders /\ [][NextHeaders]_vars

----------------------------------------------------------------------------
(* SpecQuery: every method under varied arguments, for the requests built *)

\* Python binds a keyword named limit or offset to the parameter of that
\* name, so **filters / **extra_params never hold those keys.
FilterKwargs ==
    {EmptyDict, "status" :> <<"open">>,
     ("status" :> <<"open">>) @@ ("entity_type" :> <<"user">>)}

Limits == {None, Some(0), Some(10)}
Offsets == {None, Some(0), Some(20)}

\* A DecisionFilter: its fields, each Optional.
DecisionFilters ==
    {[status |-> None, decided_by |-> None],
     [status |-> Some(<<"closed">>), decided_by |-> None],
     [status |-> Some(<<"closed">>), decided_by |-> Some(<<"agent-7">>)]}

Payloads ==
    {[entity |-> Some(<<"user:123">>), note |-> None],
     [entity |-> Some(<<"user:123">>), note |-> Some(<<"spam">>)],
     [entity |-> None, note |-> None]}

Lists == {None, Some(<<>>), Some(<<"x1">>)}

QueryArgs(op) ==
    CASE op \in {"create_report", "create_decision", "send_event", "send_event_sync"}
           -> {[Args0 EXCEPT !.payload = p] : p \in Payloads}
      [] op \in {"get_decision", "get_appeal"}
           -> {[Args0 EXCEPT !.id = i] :
                  i \in {<<"42">>, <<"dec_9">>, <<"a", "/", "b">>}}
      [] op \in {"list_reports", "list_appeals"}
           -> {[Args0 EXCEPT !.limit = l, !.offset = o, !.kwargs = f] :
                  l \in Limits, o \in Offsets, f \in FilterKwargs}
      [] op = "list_decisions"
           -> {[Args0 EXCEPT !.limit = l, !.offset = o, !.kwargs = f, !.filters = d] :
                  l \in Limits, o \in Offsets, f \in FilterKwargs,
                  d \in {None} \cup {Some(x) : x \in DecisionFilters}}
      [] op = "upsert"
           -> {[Args0 EXCEPT !.entities = e, !.relationships = r] :
                  e \in Lists, r \in Lists}
      [] op = "get_graph_schema" -> {Args0}
      [] op = "request"
           -> {[Args0 EXCEPT !.method = m, !.path = <<"/api/v1/custom-endpoint", "/">>,
                             !.kwargs = k] :
                  m \in {"GET", "DELETE"},
                  k \in {EmptyDict, "params" :> ("q" :> <<"x">>)}}

\* List calls as written: positional limit / offset, and keywords among which
\* limit or offset may appear (client.list_reports(10, limit=5), or
\* client.list_reports(limit=5, status="open")).
Positionals == {<<>>, <<10>>, <<10, 20>>, <<10, 20, 30>>}

Keywords ==
    {EmptyDict, "limit" :> 5, "offset" :> 7,
     ("limit" :> 5) @@ ("status" :> <<"open">>),
     "status" :> <<"open">>}

InitQuery == InitWith(EmptyDict, EmptyDict)

NextQuery ==
    \/ \E k \in Kinds : Construct("c1", k, ApiUrl, Token1, DefaultTimeout, NoHeaders)
    \/ \E op \in Ops : \E a \in QueryArgs(op) : Call("t1", "c1", op, a)
    \/ \E op \in {"list_reports", "list_appeals"}, pos \in Positionals,
          kw \in Keywords : CallKeywords("t1", "c1", op, pos, kw)
    \/ \E t \in Busy : \E body \in Bodies(tasks[t].op) : Respond(t, 200, body)

SpecQuery == InitQuery /\ [][NextQuery]_vars

----------------------------------------------------------------------------
(* SpecBoth: a client of either class, made by its constructor or by its
   factory under every environment, every method under varied arguments and
   every kind of response *)

\* Of the arguments of SpecQuery, those with limit absent or 0, offset absent
\* or 20, at most one free-form filter, and a structured filter absent or
\* with every field set.
BothArgs(op) ==
    {a \in QueryArgs(op) :
        /\ a.limit # Some(10) /\ a.offset # Some(0)
        /\ Cardinality(DOMAIN a.kwargs) <= 1
        /\ a.filters # None => \A f \in DOMAIN Val(a.filters) : Val(a.filters)[f] # None
        /\ a.entities # Some(<<"x1">>)}

EnvironmentsBoth ==
    {EmptyDict,
     ("CINDER_API_TOKEN" :> EnvToken) @@ ("CINDER_API_BASE_URL" :> EnvUrl),
     ("CINDER_API_TOKEN" :> <<>>) @@ ("CINDER_API_BASE_URL" :> EnvUrl)}

InitBoth == \E e \in EnvironmentsBoth : InitWith(e, EmptyDict)

NextBoth ==
    \/ \E k \in Kinds : Construct("c1", k, ApiUrl, Token1, DefaultTimeout, NoHeaders)
    \/ \E k \in Kinds, token \in TokenArgs, base_url \in UrlArgs :
          GetClient("c1", k, token, base_url, NoHeaders)
    \/ \E op \in Ops : \E a \in BothArgs(op) : Call("t1", "c1", op, a)
    \/ \E t \in Busy, status \in {200, 201, 202, 403} :
          \E body \in Bodies(tasks[t].op) : Respond(t, status, body)
    \/ \E t \in Busy, err \in TransportErrors : Fail(t, err)

SpecBoth == InitBoth /\ [][NextBoth]_vars

----------------------------------------------------------------------------
(* Properties *)

Responded == last.ev = "done" /\ last.responded

\* The steps a method body ran never include parsing as type T.
NeverParsedAs(T) == \A i \in DOMAIN last.steps : last.steps[i] # T

\* C1: whatever the method and the client class, a response whose status is
\* not 2xx ends the call with an HTTP status error carrying that status code;
\* a typed value or the raw response is never returned for it.
C1_NonSuccessRaisesStatusError ==
    (Responded /\ last.response.status \notin 200..299) =>
        /\ last.outcome.kind = "HTTPStatusError"
        /\ last.outcome.status = last.response.status
        /\ last.outcome.kind \notin {"value", "response"}

C1_Witness ==
    /\ Responded
    /\ last.kind = "sync" /\ last.op = "request"
    /\ last.response.status = 504
    /\ last.outcome.kind = "HTTPStatusError" /\ last.outcome.status = 504

\* C2 as stated: every endpoint call issues exactly one HTTP request whatever
\* its outcome, so k calls have issued k requests.
C2_EveryCallOneRequest ==
    /\ nreqs = ncalls
    /\ last.ev \in {"call", "done"} => last.sent = 1

\* C2 amended: a call on a client that has not been released issues exactly
\* one request, whatever its outcome (a response of any status, a transport
\* error, a parsing error) and however many equal calls are in flight; a call
\* on a released client is refused by the transport and issues none.
C2_OneRequestPerCallUnlessReleased ==
    /\ nreqs = ncalls - nrefused
    /\ last.ev = "call" => last.sent = 1
    /\ last.ev = "done" => last.sent = (IF last.refused THEN 0 ELSE 1)
    /\ \A t \in Busy : Len(tasks[t].wire) = 1

C2_Witness ==
    /\ tasks["t1"] # Idle /\ tasks["t2"] # Idle
    /\ tasks["t1"].op = "create_report"
    /\ tasks["t1"].wire = tasks["t2"].wire
    /\ ncalls = 2 /\ nreqs = 2

\* C3: send_event_sync gives a StatusOk parsed from the body for status 202
\* and a WorkflowResult parsed from the body for status 200; it never tries
\* the other shape, so a body of the right shape never ends in a validation
\* error.
C3_SendEventSyncBranchesOnStatus ==
    (Responded /\ last.op = "send_event_sync") =>
        /\ last.response.status = 202 =>
              /\ NeverParsedAs("WorkflowResult")
              /\ "StatusOkResponse" \in last.response.body.shapes =>
                    last.outcome = Value("StatusOkResponse", last.response.body)
        /\ last.response.status = 200 =>
              /\ NeverParsedAs("StatusOkResponse")
              /\ "WorkflowResult" \in last.response.body.shapes =>
                    last.outcome = Value("WorkflowResult", last.response.body)

C3_Witness ==
    /\ Responded /\ last.op = "send_event_sync"
    /\ last.response.status = 202
    /\ last.response.body = Json({"StatusOkResponse"})
    /\ last.outcome.kind = "value" /\ last.outcome.type = "StatusOkResponse"

\* C4: the status check comes before any parsing: on a response that is not
\* 2xx the method body runs raise_for_status and nothing else, so the outcome
\* is the status error whatever the body is.
C4_StatusCheckBeforeParsing ==
    Responded =>
        /\ last.steps # <<>> /\ last.steps[1] = "raise_for_status"
        /\ last.response.status \notin 200..299 =>
              /\ last.steps = <<"raise_for_status">>
              /\ last.outcome.kind \notin {"JSONDecodeError", "ValidationError"}

C4_Witness ==
    /\ Responded /\ last.op = "send_event_sync"
    /\ last.response.status = 422
    /\ last.response.body = NotJson
    /\ last.outcome.kind = "HTTPStatusError"

\* C5: leaving a scope releases the connection exactly once, whether the
\* scope ended normally or by an error: __exit__ / __aexit__ calls close once
\* on either path, and afterwards the connection has been released once.
C5_ScopeExitReleasesOnce ==
    /\ \A c \in Clients : clients[c] # NoClient => clients[c].releases <= 1
    /\ last.ev = "exit" =>
          /\ last.closes = 1
          /\ clients[last.client].releases = 1
          /\ clients[last.client].connState = "closed"

C5_Witness ==
    /\ last.ev = "exit" /\ last.exc # NoError
    /\ ~last.wasClosed
    /\ clients[last.client].releases = 1

\* C6: release never raises: close() on a client that sent nothing, close()
\* on a released client, close() after a scope exit and a scope exit after
\* close() all end without an error, with the client released.
C6_ReleaseNeverRaises ==
    last.ev \in {"close", "exit"} =>
        /\ last.raised = NoError
        /\ clients[last.client].connState = "closed"

C6_Witness ==
    /\ last.ev = "close" /\ last.wasClosed
    /\ last.raised = NoError

\* The environment variable is unset or empty.
EnvLacks(var) == var \notin DOMAIN env \/ env[var] = <<>>

\* C7: get_client and get_sync_client raise ValueError when the token is
\* neither passed nor in CINDER_API_TOKEN, and when the base URL is neither
\* passed nor in CINDER_API_BASE_URL; no client object has been constructed
\* and no request has been issued when the error is raised.
C7_MissingConfigurationRaisesFirst ==
    last.ev = "get_client" =>
        /\ ((last.token = None /\ EnvLacks("CINDER_API_TOKEN"))
             \/ (last.base_url = None /\ EnvLacks("CINDER_API_BASE_URL")))
              => last.raised = "ValueError"
        /\ last.raised # NoError =>
              /\ ~last.constructed
              /\ clients[last.client] = NoClient
              /\ nreqs = last.reqsBefore

C7_Witness ==
    /\ last.ev = "get_client" /\ last.kind = "sync"
    /\ last.token # None /\ last.base_url = None
    /\ last.raised = "ValueError" /\ last.about = "base_url"
    /\ nreqs > 0

\* The headers mapping passed to the constructor held an Authorization entry.
GivenAuthorization(cl) ==
    cl.given # None /\ "Authorization" \in DOMAIN Val(cl.given)

\* The call passed an Authorization header of its own (generic request).
CallAuthorization(a) ==
    /\ "headers" \in DOMAIN a.kwargs
    /\ "Authorization" \in DOMAIN a.kwargs["headers"]

CarriesBearer(t) ==
    LET sent == tasks[t].wire[1].headers
    IN  /\ "Authorization" \in DOMAIN sent
        /\ sent["Authorization"] = Bearer(clients[tasks[t].client].token)

\* The caller put an Authorization entry of its own into the headers it passed
\* to the constructor (the shared dict never holds one of the caller's: what
\* it holds under that key, a constructor wrote).
ExplicitAuthorization(cl) == cl.hdrRef = "own" /\ GivenAuthorization(cl)

\* C8: every request a client issues carries Authorization: Bearer <token>
\* with the token given at that client's construction, unless the caller
\* supplied an Authorization header of its own (stated with the spec's wider
\* exception: at construction, or with the call through the generic request
\* method).
C8_EveryRequestCarriesBearer ==
    \A t \in Busy :
        (~ExplicitAuthorization(clients[tasks[t].client])
            /\ ~CallAuthorization(tasks[t].args)) => CarriesBearer(t)

\* What does hold of the requests: the bearer token is the client's own
\* unless the mapping passed at construction held an Authorization entry,
\* whoever wrote it, or the call passed one of its own.
C8_RequestCarriesBearerUnlessOverridden ==
    \A t \in Busy :
        (~GivenAuthorization(clients[tasks[t].client])
            /\ ~CallAuthorization(tasks[t].args)) => CarriesBearer(t)

C8_Witness ==
    \E t \in Busy :
        /\ clients[tasks[t].client].given = Some("authorization" :> BasicAuth)
        /\ clients[tasks[t].client].token = Token2
        /\ tasks[t].op = "request"
        /\ "headers" \in DOMAIN tasks[t].args.kwargs
        /\ ~CallAuthorization(tasks[t].args)
        /\ tasks[t].wire[1].headers["Authorization"] = Bearer(Token2)

\* self.headers of a client: the caller's dict object where the caller
\* passed one it keeps.
HeadersOf(c) ==
    IF clients[c].hdrRef = "shared" THEN shared ELSE clients[c].headers

\* C9: a client's headers are the headers the caller passed plus the defaults
\* Authorization: Bearer <token> and Content-Type: application/json for the
\* keys the caller did not pass; every entry the caller passed is kept as it
\* was.
C9_HeadersAreGivenPlusDefaults ==
    \A c \in Clients : clients[c] # NoClient =>
        LET cl == clients[c]
            given == IF cl.given = None THEN EmptyDict ELSE Val(cl.given)
            h == HeadersOf(c)
        IN  /\ DOMAIN h = DOMAIN given \cup {"Authorization", "Content-Type"}
            /\ \A k \in DOMAIN given : h[k] = given[k]
            /\ "Authorization" \notin DOMAIN given =>
                  h["Authorization"] = Bearer(cl.token)
            /\ "Content-Type" \notin DOMAIN given =>
                  h["Content-Type"] = ApplicationJson
            /\ cl.connHeaders = h

C9_Witness ==
    \E c \in Clients :
        /\ clients[c] # NoClient
        /\ clients[c].given =
              Some(("Content-Type" :> <<"text/plain">>) @@ ("X-Trace" :> <<"1">>))
        /\ HeadersOf(c)["Content-Type"] = <<"text/plain">>
        /\ HeadersOf(c)["Authorization"] = Bearer(clients[c].token)

\* The fields of the structured filter that are set.
SetFields(filters) ==
    IF filters = None THEN {}
    ELSE {f \in DOMAIN Val(filters) : Val(filters)[f] # None}

PassedTwice(op, pos, kw) ==
    \E i \in 1..Len(pos) : i <= Len(Named(op)) /\ Named(op)[i] \in DOMAIN kw

ReturnTypes(op) ==
    CASE op \in {"create_report"} -> {"Report"}
      [] op = "list_reports" -> {"PagedReport"}
      [] op \in {"create_decision", "get_decision"} -> {"DecisionSchema"}
      [] op = "list_decisions" -> {"PagedDecisionSchema"}
      [] op = "get_appeal" -> {"Appeal"}
      [] op = "list_appeals" -> {"PagedAppeal"}
      [] op = "get_graph_schema" -> {"SchemaResponse"}
      [] op = "upsert" -> {"CreateEntitiesAndRelationshipsResponseSchema"}
      [] op = "send_event" -> {"StatusOkResponse"}
      [] op = "send_event_sync" -> {"StatusOkResponse", "WorkflowResult"}
      [] op = "request" -> {}

TypedOps == Ops \ {"request"}

\* C12: for every typed endpoint, a 2xx response whose JSON body conforms to
\* none of the method's declared response types ends the call with a
\* validation error; a typed value is returned only of a type the body
\* conforms to, and it is the body's value, never a partly filled one.
C12_NonConformingBodyFailsValidation ==
    (Responded /\ last.op \in TypedOps /\ is_success(last.response.status)) =>
        /\ (last.response.body.json
              /\ ReturnTypes(last.op) \cap last.response.body.shapes = {})
              => last.outcome = Raised("ValidationError")
        /\ last.outcome.kind = "value" =>
              /\ last.outcome.type \in ReturnTypes(last.op)
              /\ last.outcome.type \in last.response.body.shapes
              /\ last.outcome.data = last.response.body

C12_Witness ==
    /\ Responded /\ last.kind = "async" /\ last.op = "get_graph_schema"
    /\ last.response.status = 200
    /\ last.response.body = Json({})
    /\ last.outcome = Raised("ValidationError")

\* C13: no method catches, wraps or recovers from a failure.  A call ends
\* with its result or with exactly the error that was raised: the transport's
\* error where the transport raised, the status error carrying the response
\* where the status check raised, the decoding or validation error where the
\* 2xx body did not parse into the declared type; after the statement that
\* raised nothing more runs, and a result is given only when nothing raised.
C13_FailuresReachCallerUnchanged ==
    last.ev = "done" =>
        /\ ~last.responded =>
              /\ last.error # NoError
              /\ last.outcome = Raised(last.error)
              /\ last.steps = <<>>
        /\ (last.responded /\ ~is_success(last.response.status)) =>
              /\ last.outcome = HTTPStatusError(last.response)
              /\ last.steps = <<"raise_for_status">>
        /\ (last.responded /\ is_success(last.response.status)
              /\ last.op \in TypedOps) =>
              /\ ~last.response.body.json =>
                    /\ last.outcome = Raised("JSONDecodeError")
                    /\ last.steps = <<"raise_for_status", "json">>
              /\ last.response.body.json => Len(last.steps) = 3
              /\ (last.response.body.json
                    /\ last.steps[3] \notin last.response.body.shapes)
                    => last.outcome = Raised("ValidationError")
        /\ last.outcome.kind \in {"value", "response"} \cup ErrorKinds
        /\ last.outcome.kind \in {"value", "response"} =>
              /\ last.responded /\ is_success(last.response.status)
              /\ last.outcome.kind = "response" <=> last.op = "request"

C13_Witness ==
    /\ last.ev = "done" /\ ~last.responded /\ ~last.refused
    /\ last.kind = "sync" /\ last.op = "create_decision"
    /\ last.error = "ConnectError"
    /\ last.outcome = Raised("ConnectError")

\* s ends with a slash.
EndsWithSlash(s) == Len(s) > 0 /\ s[Len(s)] = "/"

\* C14: the base URL a client stores never ends with a slash: it is the URL
\* passed with every trailing slash removed and nothing else changed (a URL
\* without a trailing slash is stored as passed), and normalising the stored
\* URL again changes nothing.
C14_BaseUrlHasNoTrailingSlash ==
    /\ \A c \in Clients : clients[c] # NoClient =>
          /\ ~EndsWithSlash(clients[c].base_url)
          /\ rstrip(clients[c].base_url) = clients[c].base_url
    /\ last.ev = "construct" =>
          LET given == last.base_url
              stored == clients[last.client].base_url
          IN  /\ Len(stored) <= Len(given)
              /\ stored = SubSeq(given, 1, Len(stored))
              /\ \A i \in (Len(stored) + 1)..Len(given) : given[i] = "/"
              /\ ~EndsWithSlash(given) => stored = given

C14_Witness ==
    /\ last.ev = "construct"
    /\ last.base_url = ApiUrl \o <<"/", "/">>
    /\ clients[last.client].base_url = ApiUrl

PayloadOps == {"create_report", "create_decision", "send_event", "send_event_sync"}

\* The typed payload of a call: the caller's, or for upsert the
\* CreateEntitiesAndRelationshipsSchema built from the two lists.
PayloadOf(op, a) ==
    IF op = "upsert"
    THEN [entities |-> a.entities, relationships |-> a.relationships]
    ELSE a.payload

\* C15: the JSON body of create_report, create_decision, upsert, send_event
\* and send_event_sync holds exactly the payload's fields that are not None,
\* each with its value, and no null; upsert leaves out a list that is absent,
\* sends an empty list as an empty list, and with both lists absent still
\* sends its one POST to /api/v1/graph/.
C15_NoneFieldsOmittedFromBody ==
    \A t \in Busy : tasks[t].op \in PayloadOps \cup {"upsert"} =>
        LET p == PayloadOf(tasks[t].op, tasks[t].args)
            w == tasks[t].wire[1]
        IN  /\ Len(tasks[t].wire) = 1
            /\ w.verb = "POST"
            /\ w.json # None
            /\ DOMAIN Val(w.json) = {f \in DOMAIN p : p[f] # None}
            /\ \A f \in DOMAIN Val(w.json) : Val(w.json)[f] = Val(p[f])
            /\ tasks[t].op = "upsert" =>
                  w.url = clients[tasks[t].client].base_url \o <<"/api/v1/graph", "/">>

C15_Witness ==
    \E t \in Busy :
        /\ tasks[t].op = "upsert"
        /\ tasks[t].args.entities = None
        /\ tasks[t].args.relationships = Some(<<>>)
        /\ Val(tasks[t].wire[1].json) = ("relationships" :> <<>>)

\* The endpoint table: the verb of each named operation and its path, as the
\* part before the id and whether an id (followed by a slash) comes after it.
TableVerb(op) ==
    IF op \in {"create_report", "create_decision", "upsert", "send_event",
               "send_event_sync"}
    THEN "POST" ELSE "GET"

TablePath(op) ==
    CASE op = "create_report" -> [before |-> <<"/api/v1/create_report", "/">>, id |-> FALSE]
      [] op = "list_reports" -> [before |-> <<"/api/v1/report", "/">>, id |-> FALSE]
      [] op = "create_decision" -> [before |-> <<"/api/v1/create_decision", "/">>, id |-> FALSE]
      [] op = "get_decision" -> [before |-> <<"/api/v1/decisions", "/">>, id |-> TRUE]
      [] op = "list_decisions" -> [before |-> <<"/api/v1/decisions", "/">>, id |-> FALSE]
      [] op = "get_appeal" -> [before |-> <<"/api/v1/appeal", "/">>, id |-> TRUE]
      [] op = "list_appeals" -> [before |-> <<"/api/v1/appeal", "/">>, id |-> FALSE]
      [] op = "get_graph_schema" -> [before |-> <<"/api/v1/graph/schema", "/">>, id |-> FALSE]
      [] op = "upsert" -> [before |-> <<"/api/v1/graph", "/">>, id |-> FALSE]
      [] op = "send_event" -> [before |-> <<"/api/v2/workflows/event", "/">>, id |-> FALSE]
      [] op = "send_event_sync" ->
            [before |-> <<"/api/v2/workflows/event/sync", "/">>, id |-> FALSE]

\* C16: each named operation sends the verb and the path of the endpoint
\* table; the path ends with a slash; get_decision and get_appeal put the
\* caller's id, as passed, between the collection path and the final slash.
C16_VerbAndPathOfEndpointTable ==
    \A t \in Busy : tasks[t].op \in TypedOps =>
        LET w == tasks[t].wire[1]
            base == clients[tasks[t].client].base_url
            row == TablePath(tasks[t].op)
        IN  /\ w.verb = TableVerb(tasks[t].op)
            /\ EndsWithSlash(w.url)
            /\ w.url = base \o row.before
                        \o (IF row.id THEN tasks[t].args.id \o <<"/">> ELSE <<>>)

C16_Witness ==
    \E t \in Busy :
        /\ clients[tasks[t].client].kind = "sync"
        /\ tasks[t].op = "get_appeal"
        /\ tasks[t].args.id = <<"dec_9">>
        /\ tasks[t].wire[1].verb = "GET"
        /\ tasks[t].wire[1].url = ApiUrl \o <<"/api/v1/appeal", "/", "dec_9", "/">>

\* The other client class.
Other(kind) == IF kind = "async" THEN "sync" ELSE "async"

\* What of a client object its class does not decide.
Configuration(cl) ==
    [base_url |-> cl.base_url, token |-> cl.token, timeout |-> cl.timeout,
     headers |-> cl.headers, connHeaders |-> cl.connHeaders,
     connState |-> cl.connState]

\* C17: the blocking and the non-blocking client agree.  The request a method
\* of one class sends is the request the same method of the other class sends
\* for the same arguments (verb, URL, query, JSON body, headers); the outcome
\* a method gives for a response is the outcome the other class's method
\* gives for it; and get_client and get_sync_client raise the same error
\* about the same setting or build clients of the same configuration.
C17_BlockingAndNonBlockingAgree ==
    /\ \A t \in Busy :
          LET cl == clients[tasks[t].client]
          IN  tasks[t].wire =
                send(cl, MethodRequest(Other(cl.kind), tasks[t].op, tasks[t].args)).wire
    /\ Responded =>
          last.outcome = MethodResult(Other(last.kind), last.op, last.response).outcome
    /\ last.ev = "get_client" =>
          LET r == Factory_of(Other(last.kind), last.token, last.base_url,
                              last.given, env)
          IN  /\ r.raised = last.raised
              /\ r.about = last.about
              /\ (r.client # NoClient) = last.constructed
              /\ last.constructed =>
                    /\ r.client.kind = Other(last.kind)
                    /\ Configuration(r.client) = Configuration(clients[last.client])

C17_Witness ==
    /\ Responded /\ last.kind = "sync" /\ last.op = "send_event_sync"
    /\ last.response.status = 201
    /\ last.response.body = Json({"StatusOkResponse"})
    /\ last.outcome = Raised("ValidationError")
    /\ clients[last.client].token = EnvToken

CallFailed == last.ev = "done" /\ last.outcome.kind \in ErrorKinds

\* C19: a call that fails (a timeout, a transport error, a status that is
\* not 2xx, a body that does not parse or validate, a released client's
\* refusal) changes nothing but its own task: the client object (base URL,
\* token, headers, timeout, connection state), the caller's shared dict, the
\* environment and every other call in flight are as they were before the
\* step, so what follows is what would have followed without the failed call.
C19_FailedCallLeavesClientUnchanged ==
    [][CallFailed' =>
          /\ clients' = clients
          /\ shared' = shared /\ env' = env
          /\ \A u \in Tasks \ {last'.task} : tasks'[u] = tasks[u]]_vars

C19_Witness ==
    /\ CallFailed /\ last.outcome = Raised("TimeoutException")
    /\ \E u \in Busy : u # last.task /\ tasks[u].client = last.client
    /\ clients[last.client].connState = "open"
    /\ clients[last.client].timeout = DefaultTimeout

\* The outcome of the call that just ended is made of the response to its own
\* request.
OwnOutcome ==
    Responded =>
        /\ ~is_success(last.response.status) =>
              last.outcome = HTTPStatusError(last.response)
        /\ last.outcome.kind = "value" =>
              /\ is_success(last.response.status)
              /\ last.outcome.data = last.response.body
              /\ last.outcome.type \in last.response.body.shapes
        /\ last.outcome.kind = "response" =>
              last.outcome = RawResponse(last.response)
        /\ last.outcome.kind = "JSONDecodeError" =>
              is_success(last.response.status) /\ ~last.response.body.json
        /\ last.outcome.kind = "ValidationError" =>
              /\ is_success(last.response.status) /\ last.response.body.json
              /\ \E T \in ReturnTypes(last.op) : T \notin last.response.body.shapes

\* C20: with several calls in flight on one non-blocking client, a call that
\* ends gives the result or the error made of the response to its own
\* request, whatever the order in which the calls were made and answered; a
\* step of a call (its start, its end) writes nothing of the client object
\* and nothing of another call.
C20_EachCallGetsItsOwnResponse ==
    [][(last'.ev \in {"call", "done"} /\ last'.kind = "async") =>
          /\ clients' = clients
          /\ \A u \in Tasks \ {last'.task} : tasks'[u] = tasks[u]
          /\ (last'.ev = "done" /\ ~last'.refused) =>
                last'.wire = tasks[last'.task].wire
          /\ OwnOutcome']_vars

C20_Witness ==
    /\ Responded /\ last.kind = "async" /\ last.task = "t2"
    /\ last.op = "list_reports"
    /\ last.response.status = 200 /\ last.outcome.kind = "value"
    /\ tasks["t1"] # Idle /\ tasks["t1"].client = last.client
    /\ tasks["t1"].op = "create_report"

\* C21: send_event validates the body of every 2xx response as a
\* StatusOkResponse, for status 200 as for status 202: a body of that shape
\* gives the StatusOkResponse parsed from it, the body is never parsed as a
\* WorkflowResult and no WorkflowResult is ever returned.
C21_SendEventAlwaysStatusOk ==
    (Responded /\ last.op = "send_event") =>
        /\ NeverParsedAs("WorkflowResult")
        /\ last.outcome.kind = "value" => last.outcome.type = "StatusOkResponse"
        /\ (is_success(last.response.status)
              /\ "StatusOkResponse" \in last.response.body.shapes)
              => last.outcome = Value("StatusOkResponse", last.response.body)
        /\ (is_success(last.response.status) /\ last.response.body.json
              /\ "StatusOkResponse" \notin last.response.body.shapes)
              => last.outcome = Raised("ValidationError")

C21_Witness ==
    /\ Responded /\ last.op = "send_event" /\ last.kind = "async"
    /\ last.response.status = 200
    /\ last.response.body = Json({"StatusOkResponse"})
    /\ last.outcome = Value("StatusOkResponse", last.response.body)

\* The client has been released.
Released(c) == clients[c] # NoClient /\ clients[c].connState = "closed"

\* C22: release is permanent, and a call made on a released client fails: no
\* step (a call, a close, entering or leaving a scope) opens a released
\* client's connection again, and a method called on a released client ends
\* at once with the transport's RuntimeError, having sent nothing; it never
\* gives a typed result.
C22_ReleaseIsPermanent ==
    [][/\ \A c \in Clients : Released(c) =>
             clients'[c] # NoClient /\ clients'[c].connState = "closed"
       /\ \A c \in Clients :
             (Released(c) /\ ncalls' > ncalls /\ last'.client = c) =>
                /\ last'.ev = "done"
                /\ last'.outcome = Raised("RuntimeError")
                /\ last'.sent = 0
                /\ tasks' = tasks]_vars

C22_Witness ==
    /\ last.ev = "done" /\ last.refused
    /\ last.outcome = Raised("RuntimeError")
    /\ clients[last.client].connState = "closed"
    /\ clients[last.client].scope = "in"
    /\ clients[last.client].releases = 1

\* The type send_event_sync validates the body of a 2xx response against.
TypeForStatus(status) ==
    IF status = 202 THEN "StatusOkResponse" ELSE "WorkflowResult"

\* C23: send_event_sync chooses the response type by the status code alone:
\* StatusOkResponse for 202 and WorkflowResult for every other 2xx status
\* (200, 201), whatever the body is; the body is validated against that one
\* type, also when it fits the other one or both.
C23_TypeChosenByStatusAlone ==
    (Responded /\ last.op = "send_event_sync"
        /\ is_success(last.response.status)) =>
        LET T == TypeForStatus(last.response.status)
            body == last.response.body
        IN  /\ ~body.json =>
                  /\ last.steps = <<"raise_for_status", "json">>
                  /\ last.outcome = Raised("JSONDecodeError")
            /\ body.json =>
                  /\ last.steps = <<"raise_for_status", "json", T>>
                  /\ last.outcome = IF T \in body.shapes THEN Value(T, body)
                                    ELSE Raised("ValidationError")

C23_Witness ==
    /\ Responded /\ last.op = "send_event_sync" /\ last.kind = "async"
    /\ last.response.status = 201
    /\ last.response.body = Json({"StatusOkResponse", "WorkflowResult"})
    /\ last.outcome.kind = "value" /\ last.outcome.type = "WorkflowResult"

\* C24: a constructor leaves the headers mapping the caller passed as it
\* was, so that every client built from one mapping sends its own default
\* Authorization: Bearer <token>.
C24_ConstructorLeavesMappingUnchanged ==
    /\ (last.ev = "construct" /\ last.passedShared) => shared = last.sharedBefore
    /\ \A c \in Clients :
          (clients[c] # NoClient /\ clients[c].hdrRef = "shared") =>
              clients[c].connHeaders["Authorization"] = Bearer(clients[c].token)

\* What a factory call resolves an argument to: the argument when one was
\* passed, else the value of the environment variable.
Resolved(arg, var) == IF arg # None THEN Val(arg) ELSE env[var]

\* The argument is absent and the environment variable is unset or empty.
Missing(arg, var) == arg = None /\ EnvLacks(var)

\* C25: in get_client / get_sync_client a passed token or base URL takes
\* precedence and its environment variable is not consulted; ValueError is
\* raised exactly when an argument is None and its variable is unset or
\* empty, so a passed empty string is accepted; the token is checked before
\* the base URL, so with both missing the error is the token's.
C25_FactoryArgumentPrecedence ==
    last.ev = "get_client" =>
        LET noToken == Missing(last.token, "CINDER_API_TOKEN")
            noUrl == Missing(last.base_url, "CINDER_API_BASE_URL")
        IN  /\ last.raised = (IF noToken \/ noUrl THEN "ValueError" ELSE NoError)
            /\ noToken => last.about = "token"
            /\ (~noToken /\ noUrl) => last.about = "base_url"
            /\ last.token # None => "CINDER_API_TOKEN" \notin last.consulted
            /\ last.base_url # None => "CINDER_API_BASE_URL" \notin last.consulted
            /\ last.constructed =
                  (last.raised = NoError /\ clients[last.client] # NoClient)
            /\ last.constructed =>
                  /\ clients[last.client].token
                        = Resolved(last.token, "CINDER_API_TOKEN")
                  /\ clients[last.client].base_url
                        = rstrip(Resolved(last.base_url, "CINDER_API_BASE_URL"))

\* An empty token passed while CINDER_API_TOKEN is set: accepted, and the
\* client holds the empty token, the base URL coming from the environment.
C25_Witness ==
    /\ last.ev = "get_client" /\ last.kind = "async"
    /\ last.token = Some(<<>>) /\ last.base_url = None
    /\ "CINDER_API_TOKEN" \in DOMAIN env /\ env["CINDER_API_TOKEN"] = EnvToken
    /\ last.raised = NoError
    /\ clients[last.client].token = <<>>
    /\ clients[last.client].base_url = EnvUrl
    /\ last.consulted = {"CINDER_API_BASE_URL"}

\* Both missing: the error is the token's.
C25_WitnessBothMissing ==
    /\ last.ev = "get_client" /\ last.kind = "sync"
    /\ last.token = None /\ last.base_url = None
    /\ env = EmptyDict
    /\ last.raised = "ValueError" /\ last.about = "token"
\* C26: leaving a client scope because of an error never suppresses the
\* error: the exit releases the connection (if it is not released already),
\* without an error of its own, and the error that ended the scope (status, validation, transport or
\* any other) is what reaches the code outside, for both clients.
C26_ScopeExitPropagatesError ==
    (last.ev = "exit" /\ last.exc # NoError) =>
        /\ last.propagated = last.exc
        /\ last.raised = NoError
        /\ last.closes = 1
        /\ Released(last.client)
        /\ clients[last.client].releases
              = (IF last.wasClosed THEN last.releasesBefore
                 ELSE last.releasesBefore + 1)

\* A non-blocking client's scope ended by a validation error after a request
\* was sent: the connection is released and the validation error propagates.
C26_Witness ==
    /\ last.ev = "exit" /\ last.exc = "ValidationError"
    /\ clients[last.client].kind = "async"
    /\ ~last.wasClosed
    /\ nreqs > 0
    /\ last.propagated = "ValidationError"
    /\ clients[last.client].connState = "closed"
====
